---- MODULE Spec2Model ----
(***************************************************************************)
(* Model of the smart-irrigation ml-service.                               *)
(*                                                                         *)
(*   predict.py             one run of main(): load the artifact, obtain   *)
(*                          the raw inputs, reconcile them with the        *)
(*                          model's feature names, predict, report,        *)
(*                          persist.               (specification Spec)    *)
(*   feature_engineering.py resample_and_aggregate, create_lag_features,   *)
(*                          build_dataset.         (specification SpecFE)  *)
(*                                                                         *)
(* Optional values (Python None, pandas NaN) are sequences of length 0 or  *)
(* 1: <<>> is None / NaN, <<v>> is the value v.  Strings whose characters  *)
(* matter (feature names, keywords) are sequences of one-character         *)
(* strings.  Sensor values are in tenths (235 is 23.5).                    *)
(***************************************************************************)
EXTENDS Integers, Sequences, FiniteSets, TLC

VARIABLES
    \* ---- predict.py: environment of one run
    file_exists,    \* model_path.exists()
    artifact,       \* what joblib.load returns for the model file
    args,           \* parse_args(): from_db, raw, soil, temp, hum, device_id
    \* ---- predict.py: locals of main
    pc,             \* position of the run in main
    model,          \* model handle returned by load_artifact
    features,       \* feature-name list returned by load_artifact (<<>> is None)
    provided,       \* raw inputs: soil, temp, hum
    device_id,      \* device id kept for the prediction record
    row,            \* map_inputs_to_features: the row dict being built
    fi,             \* map_inputs_to_features: index of the next feature
    X,              \* the single-row frame: columns and values
    yhat,           \* result of model.predict
    out,            \* int(yhat[0])
    exit_code,      \* process exit status, -1 while running
    \* ---- predict.py: observable effects
    stdout,         \* decision lines printed (line 225 / 227)
    stderr,         \* messages printed to sys.stderr
    sensor_reads,   \* number of queries issued to sensordatas
    store,          \* documents inserted into predictions
    predict_calls,  \* calls of model.predict: form and outcome
    prompts,        \* names passed to prompt_float
    log,            \* stages entered and external operations, in order
    \* ---- feature_engineering.py
    fe_pc,          \* which function has run
    obs,            \* raw observations: time -> reading (or no observation)
    resampled,      \* resample(rule).mean(), before the fill (line 5)
    agg,            \* result of resample_and_aggregate (line 6)
    lagged,         \* result of create_lag_features
    dataset,        \* result of build_dataset: X and y
    fe_args         \* lags and horizon of the last call

mainVars == <<file_exists, artifact, args, pc, model, features, provided,
              device_id, row, fi, X, yhat, out, exit_code, stdout, stderr,
              sensor_reads, store, predict_calls, prompts, log>>
feVars == <<fe_pc, obs, resampled, agg, lagged, dataset, fe_args>>
vars == <<mainVars, feVars>>

\* ------------------------------------------------------------------------
\* Bounds
\* ------------------------------------------------------------------------
MaxLabel == 2       \* model labels are 0..MaxLabel
MaxBucket == 4      \* observations fall in intervals 0..MaxBucket
MaxLags == 2        \* lags argument is 0..MaxLags
MaxHorizon == 2     \* horizon argument is 0..MaxHorizon

\* ------------------------------------------------------------------------
\* Optional values
\* ------------------------------------------------------------------------
None == <<>>
Some(v) == <<v>>
IsNone(o) == Len(o) = 0
Val(o) == o[1]

\* float(val) on a numeric value keeps the number
Float(o) == Val(o)

\* ------------------------------------------------------------------------
\* Strings as character sequences
\* ------------------------------------------------------------------------
UpperCase == <<"A","B","C","D","E","F","G","H","I","J","K","L","M","N","O","P","Q","R","S","T","U","V","W","X","Y","Z">>
LowerCase == <<"a","b","c","d","e","f","g","h","i","j","k","l","m","n","o","p","q","r","s","t","u","v","w","x","y","z">>

LowerChar(c) ==
    IF \E i \in 1..26 : UpperCase[i] = c
    THEN LowerCase[CHOOSE i \in 1..26 : UpperCase[i] = c]
    ELSE c

\* str.lower()
Lower(s) == [i \in 1..Len(s) |-> LowerChar(s[i])]

\* k in s
Contains(k, s) ==
    \E i \in 0..(Len(s) - Len(k)) : SubSeq(s, i + 1, i + Len(k)) = k

s_soil == <<"s","o","i","l">>
s_moist == <<"m","o","i","s","t">>
s_temp == <<"t","e","m","p">>
s_temperature == <<"t","e","m","p","e","r","a","t","u","r","e">>
s_hum == <<"h","u","m">>
s_humid == <<"h","u","m","i","d">>
s_humidity == <<"h","u","m","i","d","i","t","y">>

f_air_temp == <<"a","i","r","_","t","e","m","p">>
f_rel_humidity == <<"r","e","l","_","h","u","m","i","d","i","t","y">>
f_soil_lag_1 == <<"s","o","i","l","_","l","a","g","_","1">>
f_Soil_Temp == <<"S","o","i","l","_","T","e","m","p">>
f_Temp_Hum == <<"T","e","m","p","_","H","u","m">>
f_hour == <<"h","o","u","r">>
f_moisture == <<"m","o","i","s","t","u","r","e">>

\* _KEYWORDS with the temp entry written before the soil entry
KEYWORDS_TempFirst ==
    << [key |-> "temp", name |-> s_temp, kws |-> <<s_temp, s_temperature>>],
       [key |-> "soil", name |-> s_soil, kws |-> <<s_soil, s_moist>>],
       [key |-> "hum",  name |-> s_hum,  kws |-> <<s_hum, s_humid, s_humidity>>] >>

\* _KEYWORDS, in the order of the dict literal
KEYWORDS ==
    << [key |-> "soil", name |-> s_soil, kws |-> <<s_soil, s_moist>>],
       [key |-> "temp", name |-> s_temp, kws |-> <<s_temp, s_temperature>>],
       [key |-> "hum",  name |-> s_hum,  kws |-> <<s_hum, s_humid, s_humidity>>] >>

Keys == {"soil", "temp", "hum"}

\* any(k in fl for k in kws)
AnyKeyword(kws, fl) == \E j \in 1..Len(kws) : Contains(kws[j], fl)

\* index in KEYWORDS of the entry at which the loop of line 141 breaks, 0 if
\* the loop ends without a match
FirstKeywordMatch(fl) ==
    IF \E i \in 1..Len(KEYWORDS) : AnyKeyword(KEYWORDS[i].kws, fl)
    THEN CHOOSE i \in 1..Len(KEYWORDS) :
            /\ AnyKeyword(KEYWORDS[i].kws, fl)
            /\ \A j \in 1..(i - 1) : ~AnyKeyword(KEYWORDS[j].kws, fl)
    ELSE 0

\* index of the key at which the loop of line 152 breaks, 0 if none
ExactKeyMatch(fl, prov) ==
    IF \E i \in 1..Len(KEYWORDS) : KEYWORDS[i].name = fl /\ ~IsNone(prov[KEYWORDS[i].key])
    THEN CHOOSE i \in 1..Len(KEYWORDS) :
            /\ KEYWORDS[i].name = fl /\ ~IsNone(prov[KEYWORDS[i].key])
            /\ \A j \in 1..(i - 1) : ~(KEYWORDS[j].name = fl /\ ~IsNone(prov[KEYWORDS[j].key]))
    ELSE 0

\* ------------------------------------------------------------------------
\* Input domains of a run
\* ------------------------------------------------------------------------
SoilVals == {None, Some(0), Some(235)}
TempVals == {None, Some(190)}
HumVals  == {None, Some(550)}
PromptVals == {77}          \* what the operator types at a prompt
NoDevice == "None"
DeviceIds == {NoDevice, "dev1"}

ScenarioB == <<f_air_temp, f_rel_humidity, f_soil_lag_1>>
FeatureLists ==
    { ScenarioB,
      <<f_Soil_Temp, f_hour>>,
      <<f_Temp_Hum, f_moisture>> }

\* values a bundle can hold under a key
NoneObj       == [id |-> "None",           truthy |-> FALSE, predict |-> FALSE]
Estimator     == [id |-> "estimator",      truthy |-> TRUE,  predict |-> TRUE]
EmptyPipeline == [id |-> "empty_pipeline", truthy |-> FALSE, predict |-> TRUE]
Text          == [id |-> "text",           truthy |-> TRUE,  predict |-> FALSE]
BundleValues == {NoneObj, Estimator, EmptyPipeline, Text}

\* what joblib.load can return: a dict, a bare object, or an error
Artifacts ==
    [kind : {"dict"}, self : {NoneObj},
     m : BundleValues, p : BundleValues, other : {NoneObj, Estimator},
     feats : {<<>>} \cup FeatureLists, feat_names : {<<>>, ScenarioB}]
    \cup
    [kind : {"object", "unreadable"}, self : {Estimator, Text},
     m : {NoneObj}, p : {NoneObj}, other : {NoneObj},
     feats : {<<>>}, feat_names : {<<>>}]

\* a or b
Or(a, b) == IF a.truthy THEN a ELSE b
SeqOr(a, b) == IF Len(a) > 0 THEN a ELSE b

\* obj.values(), the values that are not lists
DictValues(obj) == <<obj.m, obj.p, obj.other>>

\* hasattr(v, "predict")
HasPredict(v) == v.predict

\* load_artifact: [raised, model, features]
load_artifact(obj) ==
    IF obj.kind = "unreadable"
    THEN [raised |-> TRUE, model |-> NoneObj, features |-> <<>>]
    ELSE IF obj.kind = "dict"
    THEN LET m0 == Or(Or(obj.m, obj.p), NoneObj)
             fs == SeqOr(SeqOr(obj.feats, obj.feat_names), <<>>)
             vs == DictValues(obj)
             found == \E i \in 1..Len(vs) : HasPredict(vs[i])
             first == CHOOSE i \in 1..Len(vs) :
                        HasPredict(vs[i]) /\ \A j \in 1..(i - 1) : ~HasPredict(vs[j])
         IN  [raised |-> FALSE,
              model |-> IF m0 = NoneObj /\ found THEN vs[first] ELSE m0,
              features |-> fs]
    ELSE IF HasPredict(obj.self)
    THEN [raised |-> FALSE, model |-> obj.self, features |-> <<>>]
    ELSE [raised |-> TRUE, model |-> NoneObj, features |-> <<>>]

\* ------------------------------------------------------------------------
\* main
\* ------------------------------------------------------------------------
NoRow == [n \in {} |-> 0]
NoFrame == [columns |-> <<>>, values |-> <<>>]

Exit(code) ==
    /\ pc' = "END"
    /\ exit_code' = code

InitMain ==
    /\ file_exists \in BOOLEAN
    /\ artifact \in Artifacts
    /\ args \in [from_db : BOOLEAN, raw : BOOLEAN,
                 soil : SoilVals, temp : TempVals, hum : HumVals,
                 device_id : DeviceIds]
    \* --from-db never reads --soil/--temp/--hum; --device-id is only read
    \* with --from-db
    /\ args.from_db => IsNone(args.soil) /\ IsNone(args.temp) /\ IsNone(args.hum)
    /\ ~args.from_db => args.device_id = NoDevice
    /\ pc = "START"
    /\ model = NoneObj
    /\ features = <<>>
    /\ provided = [k \in Keys |-> None]
    /\ device_id = NoDevice
    /\ row = NoRow
    /\ fi = 1
    /\ X = NoFrame
    /\ yhat = None
    /\ out = None
    /\ exit_code = -1
    /\ stdout = <<>>
    /\ stderr = <<>>
    /\ sensor_reads = 0
    /\ store = <<>>
    /\ predict_calls = <<>>
    /\ prompts = <<>>
    /\ log = <<>>

InitFEIdle ==
    /\ fe_pc = "idle"
    /\ obs = <<>>
    /\ resampled = <<>>
    /\ agg = <<>>
    /\ lagged = <<>>
    /\ dataset = [X |-> <<>>, y |-> <<>>]
    /\ fe_args = [lags |-> 0, horizon |-> 0]

Init == InitMain /\ InitFEIdle

\* lines 163-167
CheckModelPath ==
    /\ pc = "START"
    /\ IF ~file_exists
       THEN /\ Exit(1)
            /\ log' = Append(log, "fatal")
       ELSE /\ pc' = "LOAD_ARTIFACT"
            /\ log' = Append(log, "LOAD_ARTIFACT")
            /\ UNCHANGED exit_code
    /\ UNCHANGED <<file_exists, artifact, args, model, features, provided,
                   device_id, row, fi, X, yhat, out, stdout, stderr,
                   sensor_reads, store, predict_calls, prompts>>
    /\ UNCHANGED feVars

\* lines 169-175; an exception raised by load_artifact is not caught and
\* ends the process with status 1
LoadArtifact ==
    /\ pc = "LOAD_ARTIFACT"
    /\ LET r == load_artifact(artifact) IN
       IF r.raised \/ r.model = NoneObj
       THEN /\ Exit(1)
            /\ log' = Append(log, "fatal")
            /\ UNCHANGED <<model, features>>
       ELSE /\ model' = r.model
            /\ features' = r.features
            /\ pc' = "OBTAIN_RAW_INPUT"
            /\ log' = Append(log, "OBTAIN_RAW_INPUT")
            /\ UNCHANGED exit_code
    /\ UNCHANGED <<file_exists, artifact, args, provided,
                   device_id, row, fi, X, yhat, out, stdout, stderr,
                   sensor_reads, store, predict_calls, prompts>>
    /\ UNCHANGED feVars

\* lines 178-191 with fetch_latest_sensor_data returning a document
FetchOk ==
    /\ pc = "OBTAIN_RAW_INPUT"
    /\ args.from_db
    /\ \E moisture \in SoilVals, temperature \in TempVals, humidity \in HumVals,
          dev \in DeviceIds :
          \* a device filter only matches documents of that device
          /\ args.device_id # NoDevice => dev = args.device_id
          /\ provided' = [soil |-> moisture, temp |-> temperature, hum |-> humidity]
          /\ device_id' = dev
    /\ sensor_reads' = sensor_reads + 1
    /\ pc' = "RECONCILE"
    /\ log' = log \o <<"sensor_read", "RECONCILE">>
    /\ UNCHANGED <<file_exists, artifact, args, model, features,
                   row, fi, X, yhat, out, exit_code, stdout, stderr,
                   store, predict_calls, prompts>>
    /\ UNCHANGED feVars

\* a fetch failure that queries again instead of exiting
FetchFail_Retry ==
    /\ pc = "OBTAIN_RAW_INPUT"
    /\ args.from_db
    /\ sensor_reads' = sensor_reads + 1
    /\ stderr' = Append(stderr, "Error fetching from database")
    /\ log' = Append(log, "sensor_read")
    /\ UNCHANGED <<file_exists, artifact, args, pc, model, features, provided,
                   device_id, row, fi, X, yhat, out, exit_code, stdout,
                   store, predict_calls, prompts>>
    /\ UNCHANGED feVars

\* lines 178-194 with fetch_latest_sensor_data raising (no connection or no
\* document)
FetchFail ==
    /\ pc = "OBTAIN_RAW_INPUT"
    /\ args.from_db
    /\ sensor_reads' = sensor_reads + 1
    /\ stderr' = Append(stderr, "Error fetching from database")
    /\ Exit(1)
    /\ log' = log \o <<"sensor_read", "fatal">>
    /\ UNCHANGED <<file_exists, artifact, args, model, features, provided,
                   device_id, row, fi, X, yhat, out, stdout,
                   store, predict_calls, prompts>>
    /\ UNCHANGED feVars

\* lines 195-196
ReadCli ==
    /\ pc = "OBTAIN_RAW_INPUT"
    /\ ~args.from_db
    /\ provided' = [soil |-> args.soil, temp |-> args.temp, hum |-> args.hum]
    /\ pc' = "RECONCILE"
    /\ log' = Append(log, "RECONCILE")
    /\ UNCHANGED <<file_exists, artifact, args, model, features,
                   device_id, row, fi, X, yhat, out, exit_code, stdout, stderr,
                   sensor_reads, store, predict_calls, prompts>>
    /\ UNCHANGED feVars

\* row[feat] = v
SetRow(r, feat, v) ==
    [n \in DOMAIN r \cup {feat} |-> IF n = feat THEN v ELSE r[n]]

\* map_inputs_to_features, one iteration of the loop of line 138
MapFeature ==
    /\ pc = "RECONCILE"
    /\ Len(features) > 0
    /\ fi <= Len(features)
    /\ LET feat == features[fi]
           fl == Lower(feat)
           km == FirstKeywordMatch(fl)
           em == ExactKeyMatch(fl, provided)
       IN  IF km # 0
           THEN LET key == KEYWORDS[km].key IN
                IF IsNone(provided[key])
                THEN \E v \in PromptVals :
                        /\ row' = SetRow(row, feat, v)
                        /\ prompts' = Append(prompts, key)
                        /\ log' = Append(log, "prompt")
                ELSE /\ row' = SetRow(row, feat, Float(provided[key]))
                     /\ UNCHANGED <<prompts, log>>
           ELSE IF em # 0
           THEN /\ row' = SetRow(row, feat, Float(provided[KEYWORDS[em].key]))
                /\ UNCHANGED <<prompts, log>>
           ELSE \E v \in PromptVals :
                   /\ row' = SetRow(row, feat, v)
                   /\ prompts' = Append(prompts, "feature")
                   /\ log' = Append(log, "prompt")
    /\ fi' = fi + 1
    /\ UNCHANGED <<file_exists, artifact, args, pc, model, features, provided,
                   device_id, X, yhat, out, exit_code, stdout, stderr,
                   sensor_reads, store, predict_calls>>
    /\ UNCHANGED feVars

\* lines 160 and 203: the loop is over, the row becomes a one-row frame with
\* the model's columns in the model's order
BuildFrame ==
    /\ pc = "RECONCILE"
    /\ Len(features) > 0
    /\ fi > Len(features)
    /\ X' = [columns |-> features,
             values |-> [i \in 1..Len(features) |-> row[features[i]]]]
    /\ pc' = "PREDICT"
    /\ log' = Append(log, "PREDICT")
    /\ UNCHANGED <<file_exists, artifact, args, model, features, provided,
                   device_id, row, fi, yhat, out, exit_code, stdout, stderr,
                   sensor_reads, store, predict_calls, prompts>>
    /\ UNCHANGED feVars

\* names prompted for by the loop of line 206, in its order
RECURSIVE MissingKeys(_, _)
MissingKeys(prov, i) ==
    IF i > Len(KEYWORDS) THEN <<>>
    ELSE (IF IsNone(prov[KEYWORDS[i].key]) THEN <<KEYWORDS[i].key>> ELSE <<>>)
         \o MissingKeys(prov, i + 1)

\* lines 204-210: no feature list, the order soil, temp, hum is assumed
DefaultFrame ==
    /\ pc = "RECONCILE"
    /\ Len(features) = 0
    /\ \E typed \in [Keys -> PromptVals] :
          /\ provided' = [k \in Keys |->
                            IF IsNone(provided[k]) THEN Some(typed[k]) ELSE provided[k]]
          /\ X' = [columns |-> <<s_soil, s_temp, s_hum>>,
                   values |-> <<Val(provided'["soil"]), Val(provided'["temp"]),
                                Val(provided'["hum"])>>]
    /\ prompts' = prompts \o MissingKeys(provided, 1)
    /\ log' = log \o [i \in 1..Len(MissingKeys(provided, 1)) |-> "prompt"] \o <<"PREDICT">>
    /\ pc' = "PREDICT"
    /\ UNCHANGED <<file_exists, artifact, args, model, features,
                   device_id, row, fi, yhat, out, exit_code, stdout, stderr,
                   sensor_reads, store, predict_calls>>
    /\ UNCHANGED feVars

\* outcomes of model.predict on a one-row input: a label array, or an
\* exception; a handle without predict raises AttributeError
PredictOutcomes(m) ==
    IF HasPredict(m) THEN {None} \cup {Some(l) : l \in 0..MaxLabel} ELSE {None}

\* a first call whose failure repeats the structured call
PredictStructured_Retry ==
    /\ pc = "PREDICT"
    /\ \E r \in PredictOutcomes(model) :
          /\ predict_calls' = Append(predict_calls, [form |-> "structured", ok |-> ~IsNone(r)])
          /\ yhat' = r
          /\ IF IsNone(r)
             THEN /\ pc' = "PREDICT"
                  /\ log' = Append(log, "predict")
             ELSE /\ pc' = "REPORT"
                  /\ log' = log \o <<"predict", "REPORT">>
    /\ UNCHANGED <<file_exists, artifact, args, model, features, provided,
                   device_id, row, fi, X, out, exit_code, stdout, stderr,
                   sensor_reads, store, prompts>>
    /\ UNCHANGED feVars

\* lines 213-215: model.predict(X)
PredictStructured ==
    /\ pc = "PREDICT"
    /\ \E r \in PredictOutcomes(model) :
          /\ predict_calls' = Append(predict_calls, [form |-> "structured", ok |-> ~IsNone(r)])
          /\ yhat' = r
          /\ IF IsNone(r)
             THEN /\ pc' = "PREDICT_FALLBACK"
                  /\ log' = Append(log, "predict")
             ELSE /\ pc' = "REPORT"
                  /\ log' = log \o <<"predict", "REPORT">>
    /\ UNCHANGED <<file_exists, artifact, args, model, features, provided,
                   device_id, row, fi, X, out, exit_code, stdout, stderr,
                   sensor_reads, store, prompts>>
    /\ UNCHANGED feVars

\* a fallback whose failure exits with status 0
PredictFlat_ExitZero ==
    /\ pc = "PREDICT_FALLBACK"
    /\ \E r \in PredictOutcomes(model) :
          /\ predict_calls' = Append(predict_calls, [form |-> "flat", ok |-> ~IsNone(r)])
          /\ yhat' = r
          /\ IF IsNone(r)
             THEN /\ Exit(0)
                  /\ log' = log \o <<"predict", "fatal">>
             ELSE /\ pc' = "REPORT"
                  /\ log' = log \o <<"predict", "REPORT">>
                  /\ UNCHANGED exit_code
    /\ UNCHANGED <<file_exists, artifact, args, model, features, provided,
                   device_id, row, fi, X, out, stdout, stderr,
                   sensor_reads, store, prompts>>
    /\ UNCHANGED feVars

\* lines 216-221: model.predict(X.values)
PredictFlat ==
    /\ pc = "PREDICT_FALLBACK"
    /\ \E r \in PredictOutcomes(model) :
          /\ predict_calls' = Append(predict_calls, [form |-> "flat", ok |-> ~IsNone(r)])
          /\ yhat' = r
          /\ IF IsNone(r)
             THEN /\ Exit(1)
                  /\ log' = log \o <<"predict", "fatal">>
             ELSE /\ pc' = "REPORT"
                  /\ log' = log \o <<"predict", "REPORT">>
                  /\ UNCHANGED exit_code
    /\ UNCHANGED <<file_exists, artifact, args, model, features, provided,
                   device_id, row, fi, X, out, stdout, stderr,
                   sensor_reads, store, prompts>>
    /\ UNCHANGED feVars

\* line 227
DecisionText(o) == IF o = 1 THEN "PUMP: ON" ELSE "PUMP: OFF"

\* lines 223-227
Report ==
    /\ pc = "REPORT"
    /\ out' = Some(Val(yhat))
    /\ stdout' = Append(stdout, IF args.raw THEN ToString(Val(yhat))
                                ELSE DecisionText(Val(yhat)))
    /\ pc' = "PERSIST"
    /\ log' = log \o <<"report", "PERSIST">>
    /\ UNCHANGED <<file_exists, artifact, args, model, features, provided,
                   device_id, row, fi, X, yhat, exit_code, stderr,
                   sensor_reads, store, predict_calls, prompts>>
    /\ UNCHANGED feVars

\* line 92
Used(pump_status) == pump_status = 0

\* lines 94-100: water_mm and pump_time_sec take their defaults
PredictionDoc(dev, pump_status) ==
    [deviceId |-> IF dev = NoDevice THEN "unknown" ELSE dev,
     waterMM |-> 10,
     pumpTimeSec |-> 20,
     used |-> Used(pump_status)]

\* lines 230-233 with save_prediction_to_db returning
PersistOk ==
    /\ pc = "PERSIST"
    /\ store' = Append(store, PredictionDoc(device_id, Val(out)))
    /\ log' = log \o <<"store_write", "END">>
    /\ Exit(0)
    /\ UNCHANGED <<file_exists, artifact, args, model, features, provided,
                   device_id, row, fi, X, yhat, out, stdout, stderr,
                   sensor_reads, predict_calls, prompts>>
    /\ UNCHANGED feVars

\* a save failure that is fatal
PersistFail_Fatal ==
    /\ pc = "PERSIST"
    /\ stderr' = Append(stderr, "Warning: Failed to save prediction to database")
    /\ log' = log \o <<"store_write_failed", "fatal">>
    /\ Exit(1)
    /\ UNCHANGED <<file_exists, artifact, args, model, features, provided,
                   device_id, row, fi, X, yhat, out, stdout,
                   sensor_reads, store, predict_calls, prompts>>
    /\ UNCHANGED feVars

\* lines 230-236 with save_prediction_to_db raising
PersistFail ==
    /\ pc = "PERSIST"
    /\ stderr' = Append(stderr, "Warning: Failed to save prediction to database")
    /\ log' = log \o <<"store_write_failed", "END">>
    /\ Exit(0)
    /\ UNCHANGED <<file_exists, artifact, args, model, features, provided,
                   device_id, row, fi, X, yhat, out, stdout,
                   sensor_reads, store, predict_calls, prompts>>
    /\ UNCHANGED feVars

Next ==
    \/ CheckModelPath
    \/ LoadArtifact
    \/ FetchOk
    \/ FetchFail
    \/ ReadCli
    \/ MapFeature
    \/ BuildFrame
    \/ DefaultFrame
    \/ PredictStructured
    \/ PredictFlat
    \/ Report
    \/ PersistOk
    \/ PersistFail

Spec == Init /\ [][Next]_vars

\* ------------------------------------------------------------------------
\* feature_engineering.py
\* ------------------------------------------------------------------------
IntervalMinutes == 15       \* interval_minutes default
FfillLimit == 2             \* ffill(limit=2)
RollingWindow == 3          \* rolling(window=3, min_periods=1)

Columns == {"moisture", "temperature", "humidity"}

\* observation times in minutes since midnight of the first day: two in the
\* first interval, one in each later interval
TimeGrid == {0} \cup {5 + IntervalMinutes * b : b \in 0..MaxBucket}

NoObs == [present |-> FALSE, moisture |-> None, temperature |-> None, humidity |-> None]
Reading(m, t, h) == [present |-> TRUE, moisture |-> m, temperature |-> t, humidity |-> h]

\* sensor values are multiples of 12, so that every mean taken below is an
\* integer
Readings ==
    { NoObs,
      Reading(Some(12), Some(12), Some(12)),
      Reading(Some(24), None, Some(12)),
      Reading(None, Some(12), Some(12)) }

SetMax(S) == CHOOSE x \in S : \A y \in S : y <= x
SetMin(S) == CHOOSE x \in S : \A y \in S : x <= y

RECURSIVE SumOver(_, _, _)
SumOver(o, c, T) ==
    IF T = {} THEN 0
    ELSE LET t == CHOOSE x \in T : TRUE
         IN  Val(o[t][c]) + SumOver(o, c, T \ {t})

\* the interval a timestamp falls in
Bucket(t) == t \div IntervalMinutes

\* mean of column c over the observations of interval b, NaN skipped
BucketMean(o, b, c) ==
    LET T == {t \in DOMAIN o : o[t].present /\ Bucket(t) = b /\ ~IsNone(o[t][c])}
    IN  IF T = {} THEN None ELSE Some(SumOver(o, c, T) \div Cardinality(T))

\* df[[...]].resample(rule).mean(): one row per interval from the first
\* observation's interval to the last one's
Resample(o) ==
    LET P == {t \in DOMAIN o : o[t].present}
    IN  IF P = {} THEN <<>>
        ELSE [b \in Bucket(SetMin(P))..Bucket(SetMax(P)) |->
                [c \in Columns |-> BucketMean(o, b, c)]]

\* a forward fill that ignores the limit
FillAt_NoCap(df, c, i, limit) ==
    IF ~IsNone(df[i][c]) THEN df[i][c]
    ELSE LET J == {j \in DOMAIN df : j < i /\ ~IsNone(df[j][c])}
         IN  IF J = {} THEN None ELSE df[CHOOSE j \in J : \A k \in J : k <= j][c]

\* forward fill of one cell: the last valid value above it, if it is at
\* most limit rows above
FillAt(df, c, i, limit) ==
    IF ~IsNone(df[i][c]) THEN df[i][c]
    ELSE LET J == {j \in DOMAIN df : j < i /\ ~IsNone(df[j][c])}
         IN  IF J = {} THEN None
             ELSE IF i - SetMax(J) <= limit THEN df[SetMax(J)][c] ELSE None

\* DataFrame.ffill(limit)
Ffill(df, limit) ==
    [i \in DOMAIN df |-> [c \in Columns |-> FillAt(df, c, i, limit)]]

\* Series.shift(n) read at index i
Shift(df, c, n, i) == IF (i - n) \in DOMAIN df THEN df[i - n][c] ELSE None

\* a lag column shifted by one interval too many
LagColumn_OffByOne(df, lag, i) ==
    IF (i - (lag + 1)) \in DOMAIN df THEN df[i - (lag + 1)]["moisture"] ELSE None

\* X[f"moisture_lag_{lag}"] at index i
LagColumn(df, lag, i) == Shift(df, "moisture", lag, i)

\* X["moisture"] - X["moisture"].shift(1) at index i
Diff1(df, i) ==
    IF IsNone(df[i]["moisture"]) \/ IsNone(Shift(df, "moisture", 1, i)) THEN None
    ELSE Some(Val(df[i]["moisture"]) - Val(Shift(df, "moisture", 1, i)))

\* rolling(window=3, min_periods=1).mean() at index i
RollingMean(df, i) ==
    LET W == {j \in DOMAIN df : j <= i /\ j > i - RollingWindow /\ ~IsNone(df[j]["moisture"])}
    IN  IF W = {} THEN None ELSE Some(SumOver(df, "moisture", W) \div Cardinality(W))

\* calendar columns of the interval starting b intervals after midnight
Hour(b) == ((b * IntervalMinutes) \div 60) % 24
DayOfYear(b) == 1 + (b * IntervalMinutes) \div 1440
DayOfWeek(b) == ((b * IntervalMinutes) \div 1440) % 7

\* the row of X at index i before dropna (lines 10-17)
FeatureRowAt(df, lags, i) ==
    [moisture |-> df[i]["moisture"],
     temperature |-> df[i]["temperature"],
     humidity |-> df[i]["humidity"],
     lag |-> [k \in 1..lags |-> LagColumn(df, k, i)],
     diff |-> Diff1(df, i),
     roll |-> RollingMean(df, i),
     hour |-> Hour(i), dayofyear |-> DayOfYear(i), dayofweek |-> DayOfWeek(i)]

\* a row dropna keeps
RowComplete(r) ==
    /\ ~IsNone(r.moisture) /\ ~IsNone(r.temperature) /\ ~IsNone(r.humidity)
    /\ \A k \in 1..Len(r.lag) : ~IsNone(r.lag[k])
    /\ ~IsNone(r.diff) /\ ~IsNone(r.roll)

create_lag_features(df, lags) ==
    LET keep == {i \in DOMAIN df : RowComplete(FeatureRowAt(df, lags, i))}
    IN  [i \in keep |-> FeatureRowAt(df, lags, i)]

\* a target shifted into the past instead of the future
Target_Backward(df, horizon, i) ==
    IF (i - horizon) \in DOMAIN df THEN df[i - horizon]["moisture"] ELSE None

\* agg_df["moisture"].shift(-horizon) read at index i
Target(df, horizon, i) == Shift(df, "moisture", 0 - horizon, i)

\* feature_cols: every column of the row except raw moisture
FeatureCols(r) ==
    [temperature |-> r.temperature, humidity |-> r.humidity,
     lag |-> r.lag, diff |-> r.diff, roll |-> r.roll,
     hour |-> r.hour, dayofyear |-> r.dayofyear, dayofweek |-> r.dayofweek]

build_dataset(df, lags, horizon) ==
    LET lf == create_lag_features(df, lags)
        keep == {i \in DOMAIN lf : ~IsNone(Target(df, horizon, i))}
    IN  [X |-> [i \in keep |-> FeatureCols(lf[i])],
         y |-> [i \in keep |-> Target(df, horizon, i)]]

InitMainIdle ==
    /\ file_exists = FALSE
    /\ artifact = [kind |-> "unreadable", self |-> Text, m |-> NoneObj, p |-> NoneObj,
                   other |-> NoneObj, feats |-> <<>>, feat_names |-> <<>>]
    /\ args = [from_db |-> FALSE, raw |-> FALSE, soil |-> None, temp |-> None,
               hum |-> None, device_id |-> NoDevice]
    /\ pc = "idle"
    /\ model = NoneObj
    /\ features = <<>>
    /\ provided = [k \in Keys |-> None]
    /\ device_id = NoDevice
    /\ row = NoRow
    /\ fi = 1
    /\ X = NoFrame
    /\ yhat = None
    /\ out = None
    /\ exit_code = -1
    /\ stdout = <<>>
    /\ stderr = <<>>
    /\ sensor_reads = 0
    /\ store = <<>>
    /\ predict_calls = <<>>
    /\ prompts = <<>>
    /\ log = <<>>

InitFE ==
    /\ InitMainIdle
    /\ fe_pc = "raw"
    /\ obs \in [TimeGrid -> Readings]
    /\ resampled = <<>>
    /\ agg = <<>>
    /\ lagged = <<>>
    /\ dataset = [X |-> <<>>, y |-> <<>>]
    /\ fe_args = [lags |-> 0, horizon |-> 0]

\* resample_and_aggregate(df)
ResampleAndAggregate ==
    /\ fe_pc = "raw"
    /\ resampled' = Resample(obs)
    /\ agg' = Ffill(Resample(obs), FfillLimit)
    /\ fe_pc' = "aggregated"
    /\ UNCHANGED <<obs, lagged, dataset, fe_args>>
    /\ UNCHANGED mainVars

\* create_lag_features(agg, lags)
CreateLagFeatures ==
    /\ fe_pc = "aggregated"
    /\ \E lags \in 0..MaxLags :
          /\ lagged' = create_lag_features(agg, lags)
          /\ fe_args' = [lags |-> lags, horizon |-> 0]
    /\ fe_pc' = "features"
    /\ UNCHANGED <<obs, resampled, agg, dataset>>
    /\ UNCHANGED mainVars

\* build_dataset(agg, lags, horizon)
BuildDataset ==
    /\ fe_pc = "aggregated"
    /\ \E lags \in 0..MaxLags, horizon \in 0..MaxHorizon :
          /\ dataset' = build_dataset(agg, lags, horizon)
          /\ fe_args' = [lags |-> lags, horizon |-> horizon]
    /\ fe_pc' = "dataset"
    /\ UNCHANGED <<obs, resampled, agg, lagged>>
    /\ UNCHANGED mainVars

NextFE ==
    \/ ResampleAndAggregate
    \/ CreateLagFeatures
    \/ BuildDataset

SpecFE == InitFE /\ [][NextFE]_vars

\* ------------------------------------------------------------------------
\* Properties
\* ------------------------------------------------------------------------
IndexOf(sq, e) == {i \in 1..Len(sq) : sq[i] = e}
Occurs(sq, e) == IndexOf(sq, e) # {}

HasSoilKeyword(fl) == Contains(s_soil, fl) \/ Contains(s_moist, fl)
HasTempKeyword(fl) == Contains(s_temp, fl) \/ Contains(s_temperature, fl)
HasHumKeyword(fl)  == Contains(s_hum, fl) \/ Contains(s_humid, fl) \/ Contains(s_humidity, fl)

\* C1: every feature already processed by map_inputs_to_features whose
\* lower-cased name contains a keyword holds the raw input of the first
\* matching set in the order soil, temp, hum, when that input is present; a
\* name with a soil keyword and another keyword gets the soil input; and the
\* list [air_temp, rel_humidity, soil_lag_1] with soil=23.5, temp=19.0,
\* hum=55.0 gives {air_temp: 19.0, rel_humidity: 55.0, soil_lag_1: 23.5}.
C1_FirstMatchingSetWins ==
    /\ \A i \in 1..Len(features) :
          i < fi =>
            LET feat == features[i]
                fl == Lower(feat)
            IN  /\ (HasSoilKeyword(fl) /\ ~IsNone(provided["soil"]))
                      => row[feat] = Val(provided["soil"])
                /\ (~HasSoilKeyword(fl) /\ HasTempKeyword(fl) /\ ~IsNone(provided["temp"]))
                      => row[feat] = Val(provided["temp"])
                /\ (~HasSoilKeyword(fl) /\ ~HasTempKeyword(fl) /\ HasHumKeyword(fl)
                      /\ ~IsNone(provided["hum"]))
                      => row[feat] = Val(provided["hum"])
    /\ ( /\ features = ScenarioB
         /\ fi > Len(features)
         /\ provided = [soil |-> Some(235), temp |-> Some(190), hum |-> Some(550)] )
       => /\ DOMAIN row = {f_air_temp, f_rel_humidity, f_soil_lag_1}
          /\ row[f_air_temp] = 190
          /\ row[f_rel_humidity] = 550
          /\ row[f_soil_lag_1] = 235

\* a name with a soil and a temp keyword was resolved with both inputs present
C1_Witness ==
    /\ pc = "PREDICT"
    /\ features = <<f_Soil_Temp, f_hour>>
    /\ ~IsNone(provided["soil"]) /\ ~IsNone(provided["temp"])
    /\ HasSoilKeyword(Lower(f_Soil_Temp)) /\ HasTempKeyword(Lower(f_Soil_Temp))
    /\ row[f_Soil_Temp] = Val(provided["soil"])

ModelFileAbsent == ~file_exists
NoModelFound == file_exists /\ model = NoneObj
FetchFailed == Occurs(stderr, "Error fetching from database")
SaveFailed == Occurs(stderr, "Warning: Failed to save prediction to database")
BothPredictsFailed ==
    /\ Len(predict_calls) = 2
    /\ ~predict_calls[1].ok /\ ~predict_calls[2].ok

\* C2 as stated: a finished run has exit code 1 exactly when the model file
\* is absent, no predictable model was found, or the sensor fetch failed, and
\* exit code 0 in every other case.
C2_ExitOneOnlyOnThreeCauses ==
    pc = "END" =>
        exit_code = (IF ModelFileAbsent \/ NoModelFound \/ FetchFailed THEN 1 ELSE 0)

\* C2 amended: a finished run has exit code 1 exactly when the model file is
\* absent, no predictable model was found, the sensor fetch failed, or both
\* model.predict calls failed; it has exit code 0 in every other case, also
\* when the prediction-store write failed.
C2_ExitCodes ==
    pc = "END" =>
        /\ exit_code = (IF ModelFileAbsent \/ NoModelFound \/ FetchFailed
                           \/ BothPredictsFailed THEN 1 ELSE 0)
        /\ SaveFailed => exit_code = 0

\* a run ended with status 1 because both predict calls failed
C2_Witness ==
    /\ pc = "END"
    /\ exit_code = 1
    /\ BothPredictsFailed
    /\ ~ModelFileAbsent /\ ~NoModelFound /\ ~FetchFailed

\* C3: the run reaches PERSIST only with the decision already printed; when
\* the store write raised, the decision was printed before the attempt, the
\* failure is a warning on stderr, nothing was stored, and the run ends with
\* exit code 0.
C3_SaveFailureIsWarning ==
    /\ pc = "PERSIST" => Len(stdout) = 1
    /\ SaveFailed =>
          /\ Len(stdout) = 1
          /\ \A i \in IndexOf(log, "store_write_failed") :
                \E j \in IndexOf(log, "report") : j < i
          /\ pc = "END"
          /\ exit_code = 0

\* the store write raised in a run that had reported a decision
C3_Witness ==
    /\ pc = "END"
    /\ SaveFailed
    /\ Len(stdout) = 1
    /\ store = <<>>

\* C4: model.predict is called first with the structured row, a second time
\* with the flat array only after the first call failed, and never a third
\* time; two failures end the run with a non-zero exit code, without report
\* or store write; a finished run reported a decision exactly when one of the
\* calls succeeded.
C4_PredictFallback ==
    /\ Len(predict_calls) <= 2
    /\ Len(predict_calls) >= 1 => predict_calls[1].form = "structured"
    /\ Len(predict_calls) = 2 =>
          /\ predict_calls[2].form = "flat"
          /\ ~predict_calls[1].ok
    /\ BothPredictsFailed =>
          /\ pc = "END"
          /\ exit_code # 0
          /\ stdout = <<>>
          /\ ~Occurs(log, "report")
          /\ ~Occurs(log, "store_write") /\ ~Occurs(log, "store_write_failed")
          /\ store = <<>>
    /\ stdout # <<>> => \E i \in 1..Len(predict_calls) : predict_calls[i].ok
    /\ pc = "END" =>
          ((\E i \in 1..Len(predict_calls) : predict_calls[i].ok) => stdout # <<>>)

\* the structured call failed, the flat call succeeded, a decision was reported
C4_Witness ==
    /\ pc = "END"
    /\ Len(predict_calls) = 2
    /\ ~predict_calls[1].ok /\ predict_calls[2].ok
    /\ stdout # <<>>

NoPredictInBundle(a) ==
    \/ a.kind = "dict" /\ ~a.m.predict /\ ~a.p.predict /\ ~a.other.predict
    \/ a.kind = "object" /\ ~a.self.predict

\* C5 as stated: once loading is over, an artifact with no object exposing
\* predict (a mapping without one, or a bare object without it) has ended the
\* run with a non-zero exit code before any sensor read, prompt or predict
\* call, and a run that is past LOAD_ARTIFACT holds a handle exposing predict.
C5_LoadRejectsUnpredictable ==
    /\ (file_exists /\ pc \notin {"START", "LOAD_ARTIFACT"} /\ NoPredictInBundle(artifact)) =>
          /\ pc = "END"
          /\ exit_code # 0
          /\ sensor_reads = 0
          /\ prompts = <<>>
          /\ predict_calls = <<>>
    /\ pc \in {"OBTAIN_RAW_INPUT", "RECONCILE", "PREDICT", "PREDICT_FALLBACK",
               "REPORT", "PERSIST"} => HasPredict(model)

\* C6 as stated: every stored record has used = TRUE exactly when the
\* decision the run printed is OFF, and used = FALSE exactly when it is ON.
C6_UsedIffOff ==
    \A i \in 1..Len(store) :
        ~args.raw =>
            /\ store[i].used <=> (stdout[1] = "PUMP: OFF")
            /\ ~store[i].used <=> (stdout[1] = "PUMP: ON")

Stages == <<"LOAD_ARTIFACT", "OBTAIN_RAW_INPUT", "RECONCILE", "PREDICT",
            "REPORT", "PERSIST", "END">>
IsStage(e) == \E r \in 1..Len(Stages) : Stages[r] = e
StageRank(e) == CHOOSE r \in 1..Len(Stages) : Stages[r] = e
StoreWrites == IndexOf(log, "store_write") \cup IndexOf(log, "store_write_failed")

\* C7: the stages are entered in the order LOAD_ARTIFACT, OBTAIN_RAW_INPUT,
\* RECONCILE, PREDICT, REPORT, PERSIST, END, none twice; the sensor store is
\* read at most once and before RECONCILE; the prediction store is written
\* at most once and after the report; a fatal end is the last thing a run
\* does.
C7_LinearStages ==
    /\ \A i, j \in 1..Len(log) :
          (i < j /\ IsStage(log[i]) /\ IsStage(log[j]))
              => StageRank(log[i]) < StageRank(log[j])
    /\ IsStage(pc) =>
          \A i \in 1..Len(log) : IsStage(log[i]) => StageRank(log[i]) <= StageRank(pc)
    /\ sensor_reads <= 1
    /\ Cardinality(IndexOf(log, "sensor_read")) = sensor_reads
    /\ \A i \in IndexOf(log, "sensor_read") :
          /\ \A j \in IndexOf(log, "RECONCILE") : i < j
          /\ \A j \in IndexOf(log, "prompt") : i < j
    /\ Len(store) <= 1
    /\ Cardinality(StoreWrites) <= 1
    /\ \A i \in StoreWrites : \E j \in IndexOf(log, "report") : j < i
    /\ \A i \in IndexOf(log, "fatal") :
          i = Len(log) /\ pc = "END" /\ exit_code # 0
    /\ (pc = "END" /\ exit_code # 0) => log[Len(log)] = "fatal"

\* a run read the sensor store, went through every stage and stored a record
C7_Witness ==
    /\ pc = "END"
    /\ exit_code = 0
    /\ sensor_reads = 1
    /\ Len(store) = 1
    /\ Occurs(log, "prompt")

\* an interval of the resampled series that holds at least one observation
HasObservation(b) == \E t \in DOMAIN obs : obs[t].present /\ Bucket(t) = b

\* intervals p+1..p+g hold no observation, and the run cannot be extended
EmptyRunAfter(p, g) ==
    /\ g >= 1
    /\ \A k \in 1..g : (p + k) \in DOMAIN resampled /\ ~HasObservation(p + k)
    /\ (p + g + 1) \in DOMAIN resampled => HasObservation(p + g + 1)

\* for every maximal run of g intervals without observations that follows an
\* interval with a value, the first min(g, 2) intervals of the run carry that
\* value and the others stay missing
FillIsCapped ==
    \A c \in Columns : \A p \in DOMAIN resampled : \A g \in 1..Cardinality(DOMAIN resampled) :
        (~IsNone(resampled[p][c]) /\ EmptyRunAfter(p, g)) =>
            \A k \in 1..g :
                agg[p + k][c] = (IF k <= 2 THEN resampled[p][c] ELSE None)

\* C8 as stated: the fill is capped at 2, and an interval that had
\* observations is never altered by the fill.
C8_FillCappedObservedUntouched ==
    fe_pc # "raw" =>
        /\ DOMAIN agg = DOMAIN resampled
        /\ FillIsCapped
        /\ \A b \in DOMAIN resampled :
              HasObservation(b) => agg[b] = resampled[b]

\* C8 amended: the fill is capped at 2, and a value aggregated from the
\* observations of an interval is never altered by the fill (an interval
\* whose observations all lack a column's value is missing in that column and
\* is filled like an interval without observations).
C8_FillCapped ==
    fe_pc # "raw" =>
        /\ DOMAIN agg = DOMAIN resampled
        /\ FillIsCapped
        /\ \A b \in DOMAIN resampled : \A c \in Columns :
              ~IsNone(resampled[b][c]) => agg[b][c] = resampled[b][c]

\* a run of three intervals without observations follows a moisture value:
\* two are filled, the third stays missing
C8_Witness ==
    /\ fe_pc = "aggregated"
    /\ \E p \in DOMAIN resampled :
          /\ ~IsNone(resampled[p]["moisture"])
          /\ EmptyRunAfter(p, 3)
          /\ agg[p + 1]["moisture"] = resampled[p]["moisture"]
          /\ agg[p + 2]["moisture"] = resampled[p]["moisture"]
          /\ IsNone(agg[p + 3]["moisture"])

\* C9: in the result of build_dataset every kept row i has y[i] equal to the
\* resampled moisture at i+H, a row whose i+H lies past the end of the series
\* is in neither X nor y, and X and y have the same index.
C9_TargetAlignment ==
    fe_pc = "dataset" =>
        /\ DOMAIN dataset.X = DOMAIN dataset.y
        /\ DOMAIN dataset.y \subseteq DOMAIN agg
        /\ \A i \in DOMAIN dataset.y :
              /\ (i + fe_args.horizon) \in DOMAIN agg
              /\ ~IsNone(dataset.y[i])
              /\ dataset.y[i] = agg[i + fe_args.horizon]["moisture"]
        /\ \A i \in DOMAIN agg :
              (i + fe_args.horizon) \notin DOMAIN agg
                  => i \notin DOMAIN dataset.X /\ i \notin DOMAIN dataset.y

\* a dataset with a positive horizon keeps a row and drops the tail
C9_Witness ==
    /\ fe_pc = "dataset"
    /\ fe_args.horizon >= 1
    /\ DOMAIN dataset.y # {}
    /\ \E i \in DOMAIN dataset.y :
          agg[i + fe_args.horizon]["moisture"] # agg[i]["moisture"]
    /\ \E i \in DOMAIN agg : (i + fe_args.horizon) \notin DOMAIN agg

MoistureAt(i) == IF i \in DOMAIN agg THEN agg[i]["moisture"] ELSE None

\* C10: in the result of create_lag_features every kept row i has
\* moisture_lag_k[i] equal to the resampled moisture at i-k for k in 1..N,
\* and a row with some i-k out of range or with a missing lag, diff or
\* rolling value is absent.
C10_LagCorrectness ==
    fe_pc = "features" =>
        /\ DOMAIN lagged \subseteq DOMAIN agg
        /\ \A i \in DOMAIN lagged : \A k \in 1..fe_args.lags :
              /\ (i - k) \in DOMAIN agg
              /\ ~IsNone(lagged[i].lag[k])
              /\ lagged[i].lag[k] = agg[i - k]["moisture"]
        /\ \A i \in DOMAIN agg :
              ( \/ \E k \in 1..fe_args.lags : IsNone(MoistureAt(i - k))
                \/ IsNone(MoistureAt(i)) \/ IsNone(MoistureAt(i - 1))
                \/ \A w \in 0..(RollingWindow - 1) : IsNone(MoistureAt(i - w)) )
              => i \notin DOMAIN lagged

\* two lags were built, a row was kept whose lags differ, and rows were dropped
C10_Witness ==
    /\ fe_pc = "features"
    /\ fe_args.lags = 2
    /\ \E i \in DOMAIN lagged : lagged[i].lag[1] # lagged[i].lag[2]
    /\ DOMAIN lagged # DOMAIN agg
====
